---- MODULE Spec2Model ----
(***************************************************************************)
(* A model of src/main.py: the GOES-19 -> Roblox decal pipeline.           *)
(*                                                                         *)
(* Python strings are sequences of one-character strings, so that strip,   *)
(* startswith, lower and the regular expression of extrair_asset_id are    *)
(* computed the way the code computes them.  JSON values are records       *)
(* [t, n, s]: t is the Python type, n the number (int/bool), s the text    *)
(* (str) or, for a nested object, the text of its "path" entry.            *)
(***************************************************************************)
EXTENDS Integers, Sequences, FiniteSets, TLC

VARIABLES
    pc,        \* position of the run (main and the functions it calls)
    cfg,       \* the environment read at import: [api_key, group_id]
    retries,   \* _http_request's parameter `retries`
    attempt,   \* _http_request's loop variable `attempt`
    reqs,      \* requests.request calls made by the current _http_request
    last_error,\* _http_request's `last_error`
    slept,     \* the time.sleep durations of the current _http_request
    now,       \* time.time()
    start,     \* esperar_operation_e_pegar_asset_id's `start`
    data,      \* esperar_operation_e_pegar_asset_id's `data` (= last_json)
    asset_id,  \* the identifier extracted / returned / handed to salvar
    ret,       \* the response returned by the last _http_request
    err,       \* the exception that ended the run, if any
    ledger,    \* the file OUT_FILE: [exists, text]
    ledger0,   \* OUT_FILE as it was before the run
    validated, \* identifiers for which validar_asset_id returned True
    late,      \* a request was started after now - start > timeout_sec
    run,       \* which invocation of main this is (the scheduler re-runs it)
    created,   \* create POSTs of this run that the platform accepted
    deleted,   \* identifiers for which a delete request was sent
    conc       \* two salvar_asset_id calls on one OUT_FILE: [w, last]

vars == <<pc, cfg, retries, attempt, reqs, last_error, slept, now, start,
          data, asset_id, ret, err, ledger, ledger0, validated, late,
          run, created, deleted, conc>>

(***************************************************************************)
(* Program constants.                                                      *)
(***************************************************************************)
DEFAULT_TIMEOUT == 120
DOWNLOAD_TIMEOUT == 60
MAX_RETRIES == 3
timeout_sec == 240
POLL_INTERVAL == 3
BACKOFF_BASE == 2

(***************************************************************************)
(* Bounds of the model.                                                    *)
(***************************************************************************)
MaxAttempts == 4      \* largest `retries` tried for one _http_request alone
MaxRuns == 2          \* invocations of main followed one after the other

(***************************************************************************)
(* Text.                                                                   *)
(***************************************************************************)
Digits == {"0", "1", "2", "3", "4", "5", "6", "7", "8", "9"}
Lowers == {"a", "b", "c", "d", "e", "f", "g", "h", "i", "j", "k", "l", "m",
    "n", "o", "p", "q", "r", "s", "t", "u", "v", "w", "x", "y", "z"}
Uppers == {"A", "B", "C", "D", "E", "F", "G", "H", "I", "J", "K", "L", "M",
    "N", "O", "P", "Q", "R", "S", "T", "U", "V", "W", "X", "Y", "Z"}
Spaces == {" ", "\n", "\t"}
WordChars == Digits \cup Lowers \cup Uppers \cup {"_"}

DigitChar(n) ==
    CASE n = 0 -> "0" [] n = 1 -> "1" [] n = 2 -> "2" [] n = 3 -> "3"
      [] n = 4 -> "4" [] n = 5 -> "5" [] n = 6 -> "6" [] n = 7 -> "7"
      [] n = 8 -> "8" [] n = 9 -> "9"

RECURSIVE NatStr(_)
NatStr(n) == IF n < 10 THEN <<DigitChar(n)>>
             ELSE NatStr(n \div 10) \o <<DigitChar(n % 10)>>

\* str(v) for an int
IntStr(n) == IF n < 0 THEN <<"-">> \o NatStr(0 - n) ELSE NatStr(n)

UpperSeq == <<"A", "B", "C", "D", "E", "F", "G", "H", "I", "J", "K", "L", "M",
             "N", "O", "P", "Q", "R", "S", "T", "U", "V", "W", "X", "Y", "Z">>
LowerSeq == <<"a", "b", "c", "d", "e", "f", "g", "h", "i", "j", "k", "l", "m",
             "n", "o", "p", "q", "r", "s", "t", "u", "v", "w", "x", "y", "z">>

LowerChar(c) == IF c \in Uppers
                THEN LowerSeq[CHOOSE i \in 1..26 : UpperSeq[i] = c] ELSE c

\* s.lower()
Lower(s) == [i \in 1..Len(s) |-> LowerChar(s[i])]

RECURSIVE LStrip(_)
LStrip(s) == IF s # <<>> /\ Head(s) \in Spaces THEN LStrip(Tail(s)) ELSE s

RECURSIVE RStrip(_)
RStrip(s) == IF s # <<>> /\ s[Len(s)] \in Spaces
             THEN RStrip(SubSeq(s, 1, Len(s) - 1)) ELSE s

\* s.strip()
Strip(s) == RStrip(LStrip(s))

\* s.isdigit()
IsDigit(s) == s # <<>> /\ \A i \in 1..Len(s) : s[i] \in Digits

\* s.startswith(p)
StartsWith(s, p) == Len(p) <= Len(s) /\ SubSeq(s, 1, Len(p)) = p

AssetsSlash == <<"a", "s", "s", "e", "t", "s", "/">>

\* the length of the run of digits of s that starts at position i
RECURSIVE DigitRun(_, _)
DigitRun(s, i) == IF i <= Len(s) /\ s[i] \in Digits
                  THEN 1 + DigitRun(s, i + 1) ELSE 0

\* \bassets/(\d+)\b matches at position i of s
MatchAt(s, i) ==
    LET j == i + Len(AssetsSlash)
        n == DigitRun(s, j)
    IN  /\ i + Len(AssetsSlash) - 1 <= Len(s)
        /\ SubSeq(s, i, j - 1) = AssetsSlash
        /\ (i = 1 \/ s[i - 1] \notin WordChars)
        /\ n >= 1
        /\ (j + n > Len(s) \/ s[j + n] \notin WordChars)

\* re.search(r"\bassets/(\d+)\b", s): group(1) of the leftmost match, or <<>>
ReSearch(s) ==
    LET hits == {i \in 1..Len(s) : MatchAt(s, i)}
    IN  IF hits = {} THEN <<>>
        ELSE LET i == CHOOSE k \in hits : \A m \in hits : k <= m
                 j == i + Len(AssetsSlash)
             IN  SubSeq(s, j, j + DigitRun(s, j) - 1)

(***************************************************************************)
(* JSON values and response bodies.                                        *)
(***************************************************************************)
JNull == [t |-> "null", n |-> 0, s |-> <<>>]
JInt(n) == [t |-> "int", n |-> n, s |-> <<>>]
JBool(b) == [t |-> "bool", n |-> IF b THEN 1 ELSE 0, s |-> <<>>]
JStr(s) == [t |-> "str", n |-> 0, s |-> s]
\* a nested object: {} or {"path": s}
JEmptyObj == [t |-> "dict", n |-> 0, s |-> <<>>]
JPathObj(s) == [t |-> "dict", n |-> 1, s |-> s]

\* a response body: a dict (t = "dict", f its entries) or a JSON array
Dict(f) == [t |-> "dict", f |-> f]
JsonList == [t |-> "list", f |-> [k \in {} |-> JNull]]

\* Optional[str]: Python's None, which no text equals
None == <<"None">>

\* obj.get(key)
Get(obj, key) == IF key \in DOMAIN obj.f THEN obj.f[key] ELSE JNull

\* bool(v)
Truthy(v) ==
    CASE v.t = "null" -> FALSE
      [] v.t = "bool" -> v.n = 1
      [] v.t = "int" -> v.n # 0
      [] v.t = "str" -> v.s # <<>>
      [] v.t = "dict" -> v.n = 1

\* a or b
Or(a, b) == IF Truthy(a) THEN a ELSE b

\* str(v)
PyStr(v) ==
    CASE v.t = "null" -> <<"N", "o", "n", "e">>
      [] v.t = "bool" -> IF v.n = 1 THEN <<"T", "r", "u", "e">>
                         ELSE <<"F", "a", "l", "s", "e">>
      [] v.t = "int" -> IntStr(v.n)
      [] v.t = "str" -> v.s
      [] v.t = "dict" -> <<"{">> \o v.s \o <<"}">>

\* lines 68-74: the value of the first direct key that yields an identifier
DirectKeys == <<"assetId", "asset_id", "assetID">>

DirectValue(obj, key) ==
    LET v == Get(obj, key)
    IN  IF key \notin DOMAIN obj.f THEN None
        ELSE IF v.t \in {"int", "bool"} THEN PyStr(v)
        ELSE IF v.t = "str" /\ IsDigit(Strip(v.s)) THEN Strip(v.s)
        ELSE None

\* lines 77-86: the candidate path strings, in order
SubPath(obj, key) ==
    LET sub == Get(obj, key)
    IN  IF sub.t = "dict" /\ sub.n = 1 THEN <<sub.s>> ELSE <<>>

Candidates(obj) ==
    (IF Get(obj, "path").t = "str" THEN <<Get(obj, "path").s>> ELSE <<>>)
    \o SubPath(obj, "response") \o SubPath(obj, "result")
    \o SubPath(obj, "metadata")

\* the first element of seq that is not None, or None
RECURSIVE FirstSome(_)
FirstSome(seq) == IF seq = <<>> THEN None
                  ELSE IF Head(seq) # None THEN Head(seq)
                  ELSE FirstSome(Tail(seq))

\* lines 59-94
extrair_asset_id(obj) ==
    IF obj.t # "dict" THEN None
    ELSE LET direct == FirstSome([i \in 1..3 |-> DirectValue(obj, DirectKeys[i])])
             cands == Candidates(obj)
             found == FirstSome([i \in 1..Len(cands) |->
                          IF ReSearch(cands[i]) = <<>> THEN None
                          ELSE ReSearch(cands[i])])
         IN  IF direct # None THEN direct ELSE found

\* line 198
StatusOf(d) == Or(Or(Get(d, "status"), Get(d, "done")), Get(d, "state"))

TerminalWords ==
    { <<"d", "o", "n", "e">>,
      <<"c", "o", "m", "p", "l", "e", "t", "e", "d">>,
      <<"s", "u", "c", "c", "e", "s", "s">>,
      <<"s", "u", "c", "c", "e", "e", "d", "e", "d">>,
      <<"t", "r", "u", "e">> }

\* line 215
IsTerminal(d) == Lower(PyStr(StatusOf(d))) \in TerminalWords

\* line 211
HasError(d) == "error" \in DOMAIN d.f

\* a check of the path that forgets the identifier
PathValidatesAnyAsset(meta, id) ==
    LET p == Or(Get(meta, "path"), JStr(<<>>))
    IN  StartsWith(Strip(p.s), AssetsSlash)

\* lines 103-104, given the metadata body
PathValidates(meta, id) ==
    LET p == Or(Get(meta, "path"), JStr(<<>>))
    IN  StartsWith(Strip(p.s), AssetsSlash \o id)

(***************************************************************************)
(* What the environment can answer.                                        *)
(***************************************************************************)
Id12 == <<"1", "2">>
Txt(w) == JStr(w)
Pending == <<"p", "e", "n", "d", "i", "n", "g">>
Versions1 == <<"/", "v", "e", "r", "s", "i", "o", "n", "s", "/", "1">>

\* bodies of the create endpoint (POST ROBLOX_UPLOAD_URL)
CreateResponses ==
    { Dict([operationId |-> Txt(<<"o", "p">>)]),
      Dict([operationId |-> Txt(<<"o", "p">>), assetId |-> JInt(12)]),
      Dict([assetId |-> JInt(12)]),
      Dict([path |-> Txt(<<"x">>)]) }

\* bodies of the operation endpoint (GET ROBLOX_OPERATIONS_URL/<id>)
PollResponses ==
    { Dict([status |-> Txt(Pending)]),
      Dict([status |-> Txt(Pending), assetId |-> JInt(12)]),
      Dict([done |-> JBool(TRUE),
            response |-> JPathObj(AssetsSlash \o Id12 \o Versions1)]),
      Dict([status |-> Txt(<<"C", "o", "m", "p", "l", "e", "t", "e", "d">>)]),
      Dict([status |-> Txt(Pending), error |-> Txt(<<"E">>)]),
      Dict([status |-> Txt(<<"D", "O", "N", "E">>), error |-> Txt(<<"E">>),
            assetId |-> Txt(<<" ", "1", "2">>)]),
      Dict([status |-> Txt(Pending), done |-> JBool(TRUE)]),
      Dict([state |-> Txt(<<"S", "U", "C", "C", "E", "E", "D", "E", "D">>),
            path |-> Txt(AssetsSlash \o <<"7">>)]) }

\* bodies of the asset-metadata endpoint (GET ROBLOX_UPLOAD_URL/<id>)
MetaResponses ==
    { Dict([path |-> Txt(AssetsSlash \o Id12)]),
      Dict([path |-> Txt(<<" ">> \o AssetsSlash \o Id12 \o Versions1)]),
      Dict([path |-> Txt(AssetsSlash \o <<"1", "2", "3">>)]),
      Dict([path |-> Txt(AssetsSlash \o <<"7", "7">>)]),
      Dict([assetId |-> JInt(12)]) }

\* what requests.request can raise, or a status >= 400 makes line 125 raise
FailureKinds == {"HTTPError", "ConnectionError", "Timeout"}

\* the environment variables read at lines 28 and 32
Configs == [api_key : {None, <<>>, <<"k">>}, group_id : {-1, 0, 1}]

\* OUT_FILE before the run: missing, or the record of an earlier run
NoFile == [exists |-> FALSE, text |-> <<>>]
File(text) == [exists |-> TRUE, text |-> text]
Ledgers == {NoFile, File(<<"5", "\n">>)}

\* no concurrent writers of OUT_FILE are being followed
NoWriters == [w |-> <<>>, last |-> 0]

NoErr == [kind |-> "none", at |-> "none", cause |-> JNull]
NoData == Dict([k \in {} |-> JNull])

(***************************************************************************)
(* The decisions of the code, one operator each.                           *)
(***************************************************************************)
\* build_config without the test of line 274
build_config_key_unchecked(c) ==
    IF c.group_id <= 0 THEN "no_group_id" ELSE "ok"

\* lines 274-277
build_config(c) ==
    IF c.api_key = None \/ c.api_key = <<>> THEN "no_api_key"
    ELSE IF c.group_id <= 0 THEN "no_group_id"
    ELSE "ok"

\* range(1, retries) in place of range(1, retries + 1)
MoreAttemptsShort(a, r) == a + 1 < r

\* lines 121, 130: another attempt follows attempt a of r
MoreAttempts(a, r) == a < r

\* line 131 with a wait that does not grow with the attempt
BackoffConstant(a) == BACKOFF_BASE

\* line 131
Backoff(a) == BACKOFF_BASE * a

\* the `timeout` of the _http_request made at position p (lines 117, 141)
TimeoutAt(p) == IF p = "download" THEN DOWNLOAD_TIMEOUT ELSE DEFAULT_TIMEOUT

\* >= in place of >
TimedOutGe(t, t0) == t - t0 >= timeout_sec

\* line 191
TimedOut(t, t0) == t - t0 > timeout_sec

\* line 254 left out
upload_always_polls(body) == "poll"

\* lines 248-257: what upload_decal_grupo does with the create response
upload_decal_grupo(body) ==
    IF ~Truthy(Get(body, "operationId")) THEN "raise" ELSE "poll"

\* a validated identifier is returned only once the status is terminal
PollDecisionStatusFirst(d, valid) ==
    IF valid /\ IsTerminal(d) THEN "return"
    ELSE IF HasError(d) THEN "raise_error"
    ELSE IF IsTerminal(d) THEN "raise_no_id"
    ELSE "sleep"

\* a terminal status returns whatever was extracted
PollDecisionNoRaise(d, valid) ==
    IF valid \/ IsTerminal(d) THEN "return"
    ELSE IF HasError(d) THEN "raise_error"
    ELSE "sleep"

\* line 211 left out
PollDecisionIgnoreError(d, valid) ==
    IF valid THEN "return"
    ELSE IF IsTerminal(d) THEN "raise_no_id"
    ELSE "sleep"

\* time.time() after a time.sleep(secs) that began at t, with the variant
\* in which the wait does not move the clock
AfterSleepStuck(t, secs) == t

\* line 218 (and 131): time.time() after time.sleep(secs) that began at t
AfterSleep(t, secs) == t + secs

\* lines 204-218: what one iteration does once the response d is read and
\* validar_asset_id has answered `valid` (FALSE when it was not called)
PollDecision(d, valid) ==
    IF valid THEN "return"
    ELSE IF HasError(d) THEN "raise_error"
    ELSE IF IsTerminal(d) THEN "raise_no_id"
    ELSE "sleep"

\* line 261
salvar_strip(id) == IF id = None THEN <<>> ELSE Strip(id)

\* line 265
Record(id) == id \o <<"\n">>

HttpPcs == {"download", "create", "poll_request", "validate", "http"}
PollPcs == {"poll_request", "validate"}

(***************************************************************************)
(* The run.                                                                *)
(***************************************************************************)
Init ==
    /\ pc = "build_config"
    /\ cfg \in Configs
    /\ retries = MAX_RETRIES
    /\ attempt = 1
    /\ reqs = 0
    /\ last_error = JNull
    /\ slept = <<>>
    /\ now = 0
    /\ start = 0
    /\ data = NoData
    /\ asset_id = None
    /\ ret = NoData
    /\ err = NoErr
    /\ ledger0 \in Ledgers
    /\ ledger = ledger0
    /\ validated = {}
    /\ late = FALSE
    /\ run = 1
    /\ created = 0
    /\ deleted = {}
    /\ conc = NoWriters

\* lines 120-121: a call of _http_request begins
HttpBegin ==
    /\ attempt' = 1
    /\ reqs' = 0
    /\ last_error' = JNull
    /\ slept' = <<>>

\* an exception leaves main
Raise(kind, cause) ==
    /\ pc' = "failed"
    /\ err' = [kind |-> kind, at |-> pc, cause |-> cause]

\* line 123 is reached inside the polling loop after the deadline
StartsLate == pc \in PollPcs /\ TimedOut(now, start)

\* lines 289, 273-283
BuildConfig ==
    /\ pc = "build_config"
    /\ IF build_config(cfg) = "ok"
       THEN /\ pc' = "download"
            /\ HttpBegin
            /\ UNCHANGED err
       ELSE /\ Raise(build_config(cfg), JNull)
            /\ UNCHANGED <<attempt, reqs, last_error, slept>>
    /\ UNCHANGED <<run, created, deleted, conc>>
    /\ UNCHANGED <<cfg, retries, now, start, data, asset_id, ret, ledger,
                   ledger0, validated, late>>

\* lines 122-132: one attempt of _http_request that fails
HttpAttemptFails(kind) ==
    /\ pc \in HttpPcs
    /\ LET exc == [t |-> kind, n |-> attempt, s |-> <<>>]
           took == IF kind = "Timeout" THEN TimeoutAt(pc) ELSE 0
       IN  /\ reqs' = reqs + 1
           /\ last_error' = exc
           /\ late' = (late \/ StartsLate)
           /\ IF MoreAttempts(attempt, retries)
              THEN /\ slept' = Append(slept, Backoff(attempt))
                   /\ now' = AfterSleep(now + took, Backoff(attempt))
                   /\ attempt' = attempt + 1
                   /\ UNCHANGED <<pc, err>>
              ELSE /\ now' = now + took
                   /\ Raise("RetriesExhausted", exc)
                   /\ UNCHANGED <<slept, attempt>>
    /\ UNCHANGED <<run, deleted, conc>>
    /\ UNCHANGED <<cfg, retries, start, data, asset_id, ret, ledger, ledger0,
                   validated>>

\* a failed attempt whose request reached no handler of the platform
HttpFail(kind) ==
    /\ HttpAttemptFails(kind)
    /\ UNCHANGED created

\* lines 139-143, 292: the download answers
DownloadOk ==
    /\ pc = "download"
    /\ reqs' = reqs + 1
    /\ pc' = "transform"
    /\ UNCHANGED <<run, created, deleted, conc>>
    /\ UNCHANGED <<cfg, retries, attempt, last_error, slept, now, start, data,
                   asset_id, ret, err, ledger, ledger0, validated, late>>

\* lines 150-175, 293: Image.open raises on bytes that are no image
Transform(ok) ==
    /\ pc = "transform"
    /\ IF ok
       THEN /\ pc' = "upload"
            /\ UNCHANGED err
       ELSE Raise("ImageError", JNull)
    /\ UNCHANGED <<run, created, deleted, conc>>
    /\ UNCHANGED <<cfg, retries, attempt, reqs, last_error, slept, now, start,
                   data, asset_id, ret, ledger, ledger0, validated, late>>

\* lines 221-243, 295
UploadBegin ==
    /\ pc = "upload"
    /\ IF cfg.group_id <= 0
       THEN /\ Raise("no_group_id", JNull)
            /\ UNCHANGED <<attempt, reqs, last_error, slept>>
       ELSE /\ pc' = "create"
            /\ HttpBegin
            /\ UNCHANGED err
    /\ UNCHANGED <<run, created, deleted, conc>>
    /\ UNCHANGED <<cfg, retries, now, start, data, asset_id, ret, ledger,
                   ledger0, validated, late>>

\* lines 245-257, then 183-188: the create request answers with `body`.
\* Only now - start is ever read, so the clock is re-based where line 185
\* reads it.
CreateOk(body) ==
    /\ pc = "create"
    /\ reqs' = reqs + 1
    /\ ret' = body
    /\ created' = created + 1
    /\ IF upload_decal_grupo(body) = "poll"
       THEN /\ pc' = "poll_check"
            /\ now' = 0
            /\ start' = 0
            /\ data' = NoData
            /\ UNCHANGED err
       ELSE /\ Raise("UploadRejected", JNull)
            /\ UNCHANGED <<now, start, data>>
    /\ UNCHANGED <<run, deleted, conc>>
    /\ UNCHANGED <<cfg, retries, attempt, last_error, slept, asset_id, ledger,
                   ledger0, validated, late>>

\* lines 190-194
PollCheck ==
    /\ pc = "poll_check"
    /\ IF TimedOut(now, start)
       THEN /\ Raise("OperationTimeout", JNull)
            /\ UNCHANGED <<attempt, reqs, last_error, slept>>
       ELSE /\ pc' = "poll_request"
            /\ HttpBegin
            /\ UNCHANGED err
    /\ UNCHANGED <<run, created, deleted, conc>>
    /\ UNCHANGED <<cfg, retries, now, start, data, asset_id, ret, ledger,
                   ledger0, validated, late>>

\* lines 211-218, and 207: the end of one iteration
Decide(d, valid) ==
    LET what == PollDecision(d, valid)
    IN  /\ CASE what = "return" ->
                 /\ pc' = "salvar"
                 /\ UNCHANGED <<now, err>>
              [] what = "raise_error" ->
                 /\ Raise("OperationError", Get(d, "error"))
                 /\ UNCHANGED now
              [] what = "raise_no_id" ->
                 /\ Raise("NoAssetId", JNull)
                 /\ UNCHANGED now
              [] what = "sleep" ->
                 /\ pc' = "poll_check"
                 /\ now' = AfterSleep(now, POLL_INTERVAL)
                 /\ UNCHANGED err

\* lines 194-204 (and 211-218 when no identifier is extracted)
PollOk(body) ==
    /\ pc = "poll_request"
    /\ late' = (late \/ StartsLate)
    /\ ret' = body
    /\ data' = body
    /\ asset_id' = extrair_asset_id(body)
    /\ IF extrair_asset_id(body) # None
       THEN /\ pc' = "validate"
            /\ HttpBegin
            /\ UNCHANGED <<now, err>>
       ELSE /\ Decide(body, FALSE)
            /\ reqs' = reqs + 1
            /\ UNCHANGED <<attempt, last_error, slept>>
    /\ UNCHANGED <<run, created, deleted, conc>>
    /\ UNCHANGED <<cfg, retries, start, ledger, ledger0, validated>>

\* lines 100-104, 206-218: the metadata request answers with `meta`
ValidateOk(meta) ==
    /\ pc = "validate"
    /\ reqs' = reqs + 1
    /\ late' = (late \/ StartsLate)
    /\ ret' = meta
    /\ validated' = IF PathValidates(meta, asset_id)
                    THEN validated \cup {asset_id} ELSE validated
    /\ Decide(data, PathValidates(meta, asset_id))
    /\ UNCHANGED <<run, created, deleted, conc>>
    /\ UNCHANGED <<cfg, retries, attempt, last_error, slept, start, data,
                   asset_id, ledger, ledger0>>

\* lines 298, 261-264: salvar_asset_id up to open(path, "w")
SalvarOpen ==
    /\ pc = "salvar"
    /\ IF salvar_strip(asset_id) = <<>>
       THEN /\ Raise("EmptyAssetId", JNull)
            /\ UNCHANGED <<asset_id, ledger>>
       ELSE /\ pc' = "write"
            /\ asset_id' = salvar_strip(asset_id)
            /\ ledger' = File(<<>>)
            /\ UNCHANGED err
    /\ UNCHANGED <<run, created, deleted, conc>>
    /\ UNCHANGED <<cfg, retries, attempt, reqs, last_error, slept, now, start,
                   data, ret, ledger0, validated, late>>

\* line 265 and the end of the with block, then 300
SalvarWrite ==
    /\ pc = "write"
    /\ ledger' = File(ledger.text \o Record(asset_id))
    /\ pc' = "done"
    /\ UNCHANGED <<run, created, deleted, conc>>
    /\ UNCHANGED <<cfg, retries, attempt, reqs, last_error, slept, now, start,
                   data, asset_id, ret, err, ledger0, validated, late>>

\* the process is killed inside salvar_asset_id
Crash ==
    /\ pc \in {"salvar", "write"}
    /\ pc' = "crashed"
    /\ UNCHANGED <<run, created, deleted, conc>>
    /\ UNCHANGED <<cfg, retries, attempt, reqs, last_error, slept, now, start,
                   data, asset_id, ret, err, ledger, ledger0, validated, late>>

Next ==
    \/ BuildConfig
    \/ \E kind \in FailureKinds : HttpFail(kind)
    \/ DownloadOk
    \/ \E ok \in BOOLEAN : Transform(ok)
    \/ UploadBegin
    \/ \E body \in CreateResponses : CreateOk(body)
    \/ PollCheck
    \/ \E body \in PollResponses : PollOk(body)
    \/ \E meta \in MetaResponses : ValidateOk(meta)
    \/ SalvarOpen
    \/ SalvarWrite
    \/ Crash

Spec == Init /\ [][Next]_vars

(***************************************************************************)
(* One call of _http_request on its own, for every retries >= 1.           *)
(***************************************************************************)
InitHttp ==
    /\ pc = "http"
    /\ cfg \in {c \in Configs : build_config(c) = "ok"}
    /\ retries \in 1..MaxAttempts
    /\ attempt = 1
    /\ reqs = 0
    /\ last_error = JNull
    /\ slept = <<>>
    /\ now = 0
    /\ start = 0
    /\ data = NoData
    /\ asset_id = None
    /\ ret = NoData
    /\ err = NoErr
    /\ ledger0 = NoFile
    /\ ledger = ledger0
    /\ validated = {}
    /\ late = FALSE
    /\ run = 1
    /\ created = 0
    /\ deleted = {}
    /\ conc = NoWriters

\* lines 123-126: the attempt answers with a status below 400
HttpOk(body) ==
    /\ pc = "http"
    /\ reqs' = reqs + 1
    /\ ret' = body
    /\ pc' = "returned"
    /\ UNCHANGED <<run, created, deleted, conc>>
    /\ UNCHANGED <<cfg, retries, attempt, last_error, slept, now, start, data,
                   asset_id, err, ledger, ledger0, validated, late>>

NextHttp ==
    \/ \E kind \in FailureKinds : HttpFail(kind)
    \/ \E body \in MetaResponses : HttpOk(body)

SpecHttp == InitHttp /\ [][NextHttp]_vars

(***************************************************************************)
(* The run under a scheduler that keeps running it: a step that can be     *)
(* taken is eventually taken (requests answer or time out, sleeps end).    *)
(***************************************************************************)
SpecLive == Init /\ [][Next]_vars /\ WF_vars(Next)

(***************************************************************************)
(* extrair_asset_id on its own, applied to one response body.              *)
(***************************************************************************)
\* a key the body does not have
Absent == [t |-> "absent", n |-> 0, s |-> <<>>]

\* the JSON object with the entries of `all` that are present
Body(all) == Dict([k \in {x \in DOMAIN all : all[x] # Absent} |-> all[k]])

ExtractBodies ==
    { Body([assetId |-> a, asset_id |-> b, path |-> p, response |-> r,
            metadata |-> md]) :
        a \in {Absent, JNull, JInt(12), JInt(0), JBool(TRUE),
               JStr(<<" ", "1", "2">>), JStr(<<"a", "b">>)},
        b \in {Absent, JInt(7)},
        p \in {Absent, JInt(5), JStr(AssetsSlash \o <<"3", "4">>),
               JStr(<<"x">> \o AssetsSlash \o <<"3", "4">>)},
        r \in {Absent, JEmptyObj, JPathObj(AssetsSlash \o <<"5">> \o Versions1)},
        md \in {Absent, JPathObj(AssetsSlash \o <<"9">>)} }
    \cup {JsonList}

InitExtract ==
    /\ pc = "extract"
    /\ cfg \in {c \in Configs : build_config(c) = "ok"}
    /\ retries = MAX_RETRIES
    /\ attempt = 1
    /\ reqs = 0
    /\ last_error = JNull
    /\ slept = <<>>
    /\ now = 0
    /\ start = 0
    /\ data \in ExtractBodies
    /\ asset_id = None
    /\ ret = NoData
    /\ err = NoErr
    /\ ledger0 = NoFile
    /\ ledger = ledger0
    /\ validated = {}
    /\ late = FALSE
    /\ run = 1
    /\ created = 0
    /\ deleted = {}
    /\ conc = NoWriters

\* line 202
Extract ==
    /\ pc = "extract"
    /\ asset_id' = extrair_asset_id(data)
    /\ pc' = "extracted"
    /\ UNCHANGED <<run, created, deleted, conc>>
    /\ UNCHANGED <<cfg, retries, attempt, reqs, last_error, slept, now, start,
                   data, ret, err, ledger, ledger0, validated, late>>

NextExtract == Extract

SpecExtract == InitExtract /\ [][NextExtract]_vars

(***************************************************************************)
(* Two runs that both validated an identifier call salvar_asset_id on the  *)
(* same OUT_FILE; their steps interleave.  Each run has its own file       *)
(* object, whose position is 0 after open(path, "w").                      *)
(***************************************************************************)
ConcIds == { <<"1", "2">>, <<"7">>, <<"3", "4", "5">>, <<"9", "9">> }

\* the file text after `bytes` are written at position pos
WriteAt(text, pos, bytes) ==
    SubSeq(text, 1, pos) \o bytes
    \o SubSeq(text, pos + Len(bytes) + 1, Len(text))

InitConc ==
    /\ pc = "concurrent"
    /\ cfg \in {c \in Configs : build_config(c) = "ok"}
    /\ retries = MAX_RETRIES
    /\ attempt = 1
    /\ reqs = 0
    /\ last_error = JNull
    /\ slept = <<>>
    /\ now = 0
    /\ start = 0
    /\ data = NoData
    /\ asset_id = None
    /\ ret = NoData
    /\ err = NoErr
    /\ ledger0 \in Ledgers
    /\ ledger = ledger0
    /\ validated = {}
    /\ late = FALSE
    /\ run = 1
    /\ created = 0
    /\ deleted = {}
    /\ \E a \in ConcIds : \E b \in ConcIds \ {a} :
          conc = [w |-> << [pc |-> "salvar", id |-> a, pos |-> 0],
                          [pc |-> "salvar", id |-> b, pos |-> 0] >>,
                  last |-> 0]

\* lines 261-264 in run i: open(path, "w") truncates the file
ConcOpen(i) ==
    /\ conc.w[i].pc = "salvar"
    /\ salvar_strip(conc.w[i].id) # <<>>
    /\ ledger' = File(<<>>)
    /\ conc' = [conc EXCEPT !.w[i].pc = "write", !.w[i].pos = 0]
    /\ UNCHANGED <<run, created, deleted>>
    /\ UNCHANGED <<pc, cfg, retries, attempt, reqs, last_error, slept, now,
                   start, data, asset_id, ret, err, ledger0, validated, late>>

\* line 265 and the close at the end of the with block in run i: the record
\* goes to the file at the position of run i's file object
ConcWrite(i) ==
    /\ conc.w[i].pc = "write"
    /\ ledger' = File(WriteAt(ledger.text, conc.w[i].pos,
                              Record(salvar_strip(conc.w[i].id))))
    /\ conc' = [conc EXCEPT !.w[i].pc = "closed", !.last = i,
                            !.w[i].pos = @ + Len(Record(conc.w[i].id))]
    /\ UNCHANGED <<run, created, deleted>>
    /\ UNCHANGED <<pc, cfg, retries, attempt, reqs, last_error, slept, now,
                   start, data, asset_id, ret, err, ledger0, validated, late>>

NextConc ==
    \/ \E i \in 1..2 : ConcOpen(i)
    \/ \E i \in 1..2 : ConcWrite(i)

SpecConc == InitConc /\ [][NextConc]_vars

(***************************************************************************)
(* The run up to the answer of the create request, with a platform that    *)
(* can accept a create POST whose answer never reaches the client.         *)
(***************************************************************************)
\* lines 122-132, 245: the platform accepted the POST, the client times out
CreateLost ==
    /\ pc = "create"
    /\ HttpAttemptFails("Timeout")
    /\ created' = created + 1

NextCreate ==
    \/ BuildConfig
    \/ \E kind \in FailureKinds : HttpFail(kind)
    \/ DownloadOk
    \/ \E ok \in BOOLEAN : Transform(ok)
    \/ UploadBegin
    \/ \E body \in CreateResponses : CreateOk(body)
    \/ CreateLost

SpecCreate == Init /\ [][NextCreate]_vars

(***************************************************************************)
(* main invoked again by the external scheduler after a run that published:*)
(* the next run finds OUT_FILE as the previous run left it.                *)
(***************************************************************************)
InitRerun ==
    /\ Init
    /\ build_config(cfg) = "ok"
    /\ ledger0 = NoFile

\* lines 303-304: a new process runs main; line 286 onwards
Restart ==
    /\ pc = "done"
    /\ run < MaxRuns
    /\ run' = run + 1
    /\ pc' = "build_config"
    /\ HttpBegin
    /\ now' = 0
    /\ start' = 0
    /\ data' = NoData
    /\ asset_id' = None
    /\ ret' = NoData
    /\ ledger0' = ledger
    /\ validated' = {}
    /\ late' = FALSE
    /\ created' = 0
    /\ UNCHANGED <<cfg, retries, err, ledger, deleted, conc>>

NextRerun ==
    \/ Next
    \/ Restart

SpecRerun == InitRerun /\ [][NextRerun]_vars

(***************************************************************************)
(* The claims.                                                             *)
(***************************************************************************)
\* the metadata body `body` declares a path that begins with assets/<id>
DeclaresAsset(body, id) ==
    /\ "path" \in DOMAIN body.f
    /\ body.f["path"].t = "str"
    /\ StartsWith(Strip(body.f["path"].s), AssetsSlash \o id)

Saving == {"salvar", "write", "done", "crashed"}

\* C1: the ledger is only ever changed to hold an identifier for which
\* validar_asset_id returned True in this run, i.e. whose metadata response
\* declared a path beginning with assets/<id>; an identifier that was only
\* extracted (from a poll or from the create response) is never written.
C1_ValidationGate ==
    \/ ledger = ledger0
    \/ ledger = File(<<>>)
    \/ \E id \in validated :
          /\ ledger = File(id \o <<"\n">>)
          /\ DeclaresAsset(ret, id)

C1_Witness ==
    /\ pc = "done"
    /\ asset_id \in validated
    /\ ledger = File(asset_id \o <<"\n">>)
    /\ ledger # ledger0

\* C2: when a poll response with no error field and a non-terminal status
\* yields an identifier whose validation does not succeed, polling does not
\* fail there: it goes on to the next poll.
C2_ValidationFailureNonFatal ==
    ~ ( /\ pc = "failed"
        /\ err.at = "validate"
        /\ ~HasError(data)
        /\ ~IsTerminal(data) )

\* C3: a call of _http_request that returns has made as many requests as
\* attempts, at most retries of them, all but the last failed, and returns
\* the last one's response; a call that fails has made exactly retries
\* requests and raises one failure whose cause is the last attempt's.
C3_RetryBound ==
    /\ reqs <= retries
    /\ pc = "returned" =>
          /\ reqs = attempt
          /\ ret \in MetaResponses
          /\ err = NoErr
          /\ (attempt > 1 => last_error.n = attempt - 1)
    /\ pc = "failed" =>
          /\ reqs = retries
          /\ err.kind = "RetriesExhausted"
          /\ err.cause.t \in FailureKinds
          /\ err.cause.n = retries
          /\ err.cause = last_error

C3_Witness ==
    /\ pc = "returned"
    /\ retries = 3
    /\ reqs = 3
    /\ last_error.n = 2

\* the step is the answer of the request made at position p (a failed
\* attempt changes last_error, an answer leaves it)
Answered(p) == pc = p /\ last_error' = last_error /\ pc' # p

\* C4: when the response read has a non-terminal status and the identifier
\* extracted from it validates, the very step that reads the metadata
\* answer returns that identifier, with no wait and no further poll.
C4_IdentifierBeforeStatus ==
    [][ ( /\ Answered("validate")
          /\ ~IsTerminal(data)
          /\ DeclaresAsset(ret', asset_id) )
        => ( /\ pc' = "salvar"
             /\ asset_id' = asset_id
             /\ asset_id = extrair_asset_id(data)
             /\ now' = now
             /\ err' = NoErr ) ]_vars

C4_Witness ==
    /\ pc = "salvar"
    /\ StatusOf(data) = Txt(Pending)
    /\ ~HasError(data)
    /\ asset_id = Id12
    /\ DeclaresAsset(ret, asset_id)

\* C5: a run that failed, or has not yet come to salvar_asset_id's open,
\* has the ledger exactly as it was before the run; a run that finished
\* has the complete record of a validated identifier in it.
C5_NoLedgerMutationOnFailure ==
    /\ pc \notin {"write", "done", "crashed"} => ledger = ledger0
    /\ pc = "done" =>
          /\ asset_id \in validated
          /\ ledger = File(asset_id \o <<"\n">>)
          /\ err = NoErr

C5_Witness ==
    /\ pc = "failed"
    /\ err.at \in {"poll_check", "poll_request", "validate"}
    /\ ledger0 = File(<<"5", "\n">>)
    /\ ledger = ledger0

\* C6: in every state the ledger holds either the complete previous
\* record or the complete new identifier followed by a newline.
C6_AtomicLedgerWrite ==
    ledger0.exists =>
        \/ ledger = ledger0
        \/ asset_id # None /\ ledger = File(asset_id \o <<"\n">>)

\* C7 as claimed: a create response with a usable identifier and no
\* operation handle is never rejected.
C7_SynchronousAccepted ==
    (pc = "failed" /\ err.at = "create" /\ err.kind = "UploadRejected")
        => extrair_asset_id(ret) = None

\* C7 as amended: the create response is accepted exactly when it carries
\* an operation handle, and then polling begins with no identifier taken
\* from it; without a handle the upload is rejected, whether or not an
\* assetId is present, nothing is polled and nothing is persisted.
C7_HandleRequired ==
    [][ Answered("create") =>
          IF Truthy(Get(ret', "operationId"))
          THEN /\ pc' = "poll_check"
               /\ asset_id' = None
               /\ err' = NoErr
          ELSE /\ pc' = "failed"
               /\ err'.kind = "UploadRejected"
               /\ asset_id' = None
               /\ data' = NoData
               /\ ledger' = ledger0 ]_vars

C7_Witness ==
    /\ pc = "failed"
    /\ err.kind = "UploadRejected"
    /\ extrair_asset_id(ret) = Id12
    /\ ledger = ledger0

\* C8 as claimed: no request of the polling loop starts once the elapsed
\* time exceeds the timeout, and polling that was unresolved when the
\* timeout was exceeded does not return an identifier afterwards.
C8_TimeoutBoundsPolling ==
    /\ ~late
    /\ pc \in Saving => now - start <= timeout_sec

\* C8 as amended: the deadline is tested only where an iteration begins
\* (line 191).  An iteration that begins with more than timeout_sec elapsed fails
\* with the timeout error, sends nothing and leaves the ledger as it was
\* before the run; an iteration begins its request only within the
\* deadline; the timeout error arises nowhere else.
C8_TimeoutAtIterationStart ==
    /\ [](pc = "failed" /\ err.kind = "OperationTimeout"
             => /\ err.at = "poll_check"
                /\ now - start > timeout_sec
                /\ ledger = ledger0)
    /\ []((pc = "poll_request" /\ attempt = 1) => now - start <= timeout_sec)
    /\ [][ pc = "poll_check" =>
             IF now - start > timeout_sec
             THEN /\ pc' = "failed"
                  /\ err'.kind = "OperationTimeout"
                  /\ reqs' = reqs
                  /\ late' = late
                  /\ ledger' = ledger0
             ELSE /\ pc' = "poll_request"
                  /\ reqs' = 0 ]_vars

C8_Witness ==
    /\ pc = "failed"
    /\ err.kind = "OperationTimeout"
    /\ now - start > timeout_sec
    /\ ~late
    /\ ledger0.exists

\* C9 as claimed: once a response with an error field has been dealt with,
\* polling has failed with the operation error that carries its value.
C9_ErrorFieldFails ==
    (HasError(data) /\ pc # "validate")
        => /\ pc = "failed"
           /\ err.kind = "OperationError"
           /\ err.cause = Get(data, "error")

\* C9 as amended: a response with an error field ends polling at that
\* poll: with the identifier if one extracted from it validated, with the
\* request failure if the validation request ran out of attempts, and
\* otherwise with the operation error that carries the field's value.
C9_ErrorFieldEndsPolling ==
    (HasError(data) /\ pc # "validate")
        => \/ /\ pc \in Saving
              /\ asset_id \in validated
              /\ asset_id = salvar_strip(extrair_asset_id(data))
           \/ /\ pc = "failed"
              /\ err.kind = "RetriesExhausted"
              /\ err.at = "validate"
              /\ asset_id \notin validated
           \/ /\ pc = "failed"
              /\ err.kind = "OperationError"
              /\ err.at \in PollPcs
              /\ err.cause = data.f["error"]
              /\ asset_id \notin validated
              /\ ledger = ledger0

C9_Witness ==
    /\ pc = "failed"
    /\ err.kind = "OperationError"
    /\ err.cause = Txt(<<"E">>)
    /\ IsTerminal(data)
    /\ asset_id = Id12

\* C10: once a response with a terminal status has been dealt with and no
\* identifier from it validated, polling has failed with an operation
\* error (the error field's, or completed-without-identifier).
C10_CompletedWithoutId ==
    (IsTerminal(data) /\ pc # "validate" /\ asset_id \notin validated)
        => /\ pc = "failed"
           /\ err.kind \in {"OperationError", "NoAssetId"}

\* the identifier recorded in the ledger file f
Recorded(f) == Strip(f.text)

\* C11: when main runs a second time after a run that published, the second
\* run overwrites the ledger with its own new identifier and then sends
\* exactly one delete request, for the identifier the first run recorded;
\* no delete request is sent before the ledger is written.
C11_RotationAfterRerun ==
    run = 2 =>
        IF pc = "done"
        THEN /\ ledger = File(Record(asset_id))
             /\ deleted = {Recorded(ledger0)}
        ELSE deleted = {}

Ended == {"done", "failed", "crashed"}

\* C12: every call of _http_request makes at most `retries` requests; every
\* call of esperar_operation_e_pegar_asset_id ends, by returning an
\* identifier or by failing (operation error, no identifier, timeout, request
\* failure); and every run of main ends.
C12_Termination ==
    /\ [](reqs <= retries /\ attempt <= retries)
    /\ (pc = "poll_check" ~> (pc \in Saving \/ pc = "failed"))
    /\ <>(pc \in Ended)

C12_Witness ==
    /\ pc = "failed"
    /\ err.kind = "OperationTimeout"
    /\ ~late
    /\ now > timeout_sec

\* C13: after the k-th failed attempt of a call of _http_request, for
\* 1 <= k < retries, the call waits 2 * k seconds before the next attempt;
\* after the final failed attempt it does not wait.
C13_LinearBackoff ==
    /\ \A k \in 1..Len(slept) : slept[k] = 2 * k
    /\ pc = "http" => Len(slept) = reqs
    /\ pc = "returned" => Len(slept) = reqs - 1
    /\ pc = "failed" => (reqs = retries /\ Len(slept) = retries - 1)

C13_Witness ==
    /\ pc = "failed"
    /\ retries = MAX_RETRIES
    /\ slept = <<2, 4>>

\* C14: when ROBLOX_API_KEY is missing or empty, or ROBLOX_GROUP_ID is not
\* positive, main fails in build_config: no HTTP request is made and the
\* ledger keeps its pre-run contents.
C14_ConfigErrorsBeforeIO ==
    (cfg.api_key = None \/ Len(cfg.api_key) = 0 \/ cfg.group_id < 1) =>
        /\ pc \in {"build_config", "failed"}
        /\ pc = "failed" => err.at = "build_config"
        /\ reqs = 0
        /\ created = 0
        /\ ledger = ledger0

C14_Witness ==
    /\ pc = "failed"
    /\ err.at = "build_config"
    /\ cfg.api_key = <<"k">>
    /\ cfg.group_id = 0
    /\ ledger0.exists

\* the direct identifier fields of body that hold an integer or a text of
\* digits, and the decimal text of such a field
IsIdField(body, k) ==
    /\ k \in DOMAIN body.f
    /\ \/ body.f[k].t = "int"
       \/ body.f[k].t = "str" /\ IsDigit(Strip(body.f[k].s))

DecimalOf(v) == IF v.t = "int" THEN IntStr(v.n) ELSE Strip(v.s)

\* the path texts of body: its own path, then that of response, result and
\* metadata
PathTexts(body) ==
    LET own == IF "path" \in DOMAIN body.f /\ body.f["path"].t = "str"
               THEN <<body.f["path"].s>> ELSE <<>>
        of(k) == IF k \in DOMAIN body.f /\ body.f[k].t = "dict"
                    /\ body.f[k].n = 1
                 THEN <<body.f[k].s>> ELSE <<>>
    IN  own \o of("response") \o of("result") \o of("metadata")

\* C15: for every response body extrair_asset_id returns the decimal text of
\* a direct assetId / asset_id / assetID field that is an integer or a text
\* of digits; otherwise the digits of the first assets/<digits> match in the
\* top-level path or in the path of response, result or metadata; otherwise
\* nothing.  A body that is not an object yields nothing.
C15_IdentifierExtraction ==
    pc = "extracted" =>
        IF data.t # "dict" THEN asset_id = None
        ELSE IF \E i \in 1..3 : IsIdField(data, DirectKeys[i])
        THEN LET i == CHOOSE j \in 1..3 :
                        /\ IsIdField(data, DirectKeys[j])
                        /\ \A h \in 1..(j - 1) : ~IsIdField(data, DirectKeys[h])
             IN  asset_id = DecimalOf(data.f[DirectKeys[i]])
        ELSE LET texts == PathTexts(data)
                 hit == {i \in 1..Len(texts) : ReSearch(texts[i]) # <<>>}
             IN  IF hit = {} THEN asset_id = None
                 ELSE asset_id = ReSearch(texts[CHOOSE i \in hit :
                                               \A j \in hit : i <= j])

\* C16: when the create response carries neither an operation handle nor an
\* asset identifier, the run fails with the upload-rejected error: no poll
\* request follows and the ledger keeps its pre-run contents.
C16_UploadRejected ==
    /\ [][ ( /\ Answered("create")
             /\ ~Truthy(Get(ret', "operationId"))
             /\ ~Truthy(Get(ret', "assetId")) )
           => ( /\ pc' = "failed"
                /\ err'.kind = "UploadRejected"
                /\ ledger' = ledger0 ) ]_vars
    /\ [](pc = "failed" /\ err.kind = "UploadRejected"
            => /\ err.at = "create"
               /\ data = NoData
               /\ asset_id = None
               /\ ledger = ledger0)

C16_Witness ==
    /\ pc = "failed"
    /\ err.kind = "UploadRejected"
    /\ DOMAIN ret.f = {"path"}
    /\ ledger0.exists

\* C17: when two runs that both reached salvar_asset_id write the same
\* OUT_FILE with their steps interleaved, the file holds in the end exactly
\* the complete record of the run that wrote last, never a mixture.
C17_LastWriterWins ==
    (conc.w[1].pc = "closed" /\ conc.w[2].pc = "closed") =>
        ledger = File(conc.w[conc.last].id \o <<"\n">>)

\* C18: in one run of main the platform accepts at most one create request,
\* also when the transport fails after the platform accepted the POST:
\* retrying never leads to a second accepted create.
C18_AtMostOneCreation == created <= 1

\* the metadata body declares a path that addresses exactly asset id: the
\* text assets/<id>, alone or followed by something that is not a digit
AddressesExactly(body, id) ==
    /\ "path" \in DOMAIN body.f
    /\ body.f["path"].t = "str"
    /\ LET p == Strip(body.f["path"].s)
           n == Len(AssetsSlash) + Len(id)
       IN  /\ Len(p) >= n
           /\ SubSeq(p, 1, n) = AssetsSlash \o id
           /\ (Len(p) = n \/ p[n + 1] \notin Digits)

\* C19: validar_asset_id answers True for an identifier only when the path
\* of the metadata response addresses exactly that asset: identifier 12
\* does not validate against the path assets/123.
C19_ValidationExactness ==
    \A id \in validated : AddressesExactly(ret, id)

\* C20: for every poll response whose handling is over, exactly one of four
\* outcomes was taken, in this order of precedence: an identifier that
\* validated is returned even if the response has an error field or a
\* terminal status; otherwise an error field fails the operation even if
\* the status is terminal; otherwise a terminal status fails it for lack of
\* an identifier; otherwise the loop waits and polls again.
C20_PollOutcomePrecedence ==
    (data # NoData /\ pc # "validate") =>
        IF asset_id \in validated
        THEN pc \in Saving
        ELSE IF "error" \in DOMAIN data.f
        THEN pc = "failed" /\ err.kind = "OperationError"
        ELSE IF Lower(PyStr(StatusOf(data))) \in TerminalWords
        THEN pc = "failed" /\ err.kind = "NoAssetId"
        ELSE \/ pc \in {"poll_check", "poll_request"}
             \/ pc = "failed" /\ err.at \in {"poll_check", "poll_request"}

====
